---- MODULE Spec2Model ----
(***************************************************************************)
(* DDoS/MLOps administration tool: the PostgreSQL schema of database.py    *)
(* and main.py (four tables, serial keys, unique/check/foreign-key rules), *)
(* the psycopg2 front end (database.py, models.py, widgets.py) and the     *)
(* SQLAlchemy front end (main.py).  A behaviour is a run of one of the two  *)
(* front ends, chosen by its first step, on a database that starts empty.  *)
(***************************************************************************)
EXTENDS Integers, Sequences, FiniteSets, TLC

VARIABLES db, submits, app, conn, pgModel, engine, tabs, saModel, model_cb,
          form, last, buttons, window

vars == <<db, submits, app, conn, pgModel, engine, tabs, saModel, model_cb,
          form, last, buttons, window>>

(***************************************************************************)
(* Bounds of the exploration.                                              *)
(***************************************************************************)
\* no serial sequence is driven past this value
MaxSeq == 6
\* the forms issue no more INSERT and DELETE statements than this on one
\* schema
MaxSubmits == 2
\* the tab bar of the main window never holds more tabs than this
MaxTabs == 5

(***************************************************************************)
(* Text.  A string is a sequence of runs [s, n]: n characters of kind s.   *)
(* The run " " is whitespace; every other run is a word that neither       *)
(* starts nor ends with whitespace.                                        *)
(***************************************************************************)
W(s, n) == <<[s |-> s, n |-> n]>>
SP == W(" ", 1)

RECURSIVE TextLen(_)
TextLen(t) == IF t = <<>> THEN 0 ELSE Head(t).n + TextLen(Tail(t))

RECURSIVE LStrip(_)
LStrip(t) == IF t # <<>> /\ Head(t).s = " " THEN LStrip(Tail(t)) ELSE t

RECURSIVE RStrip(_)
RStrip(t) ==
    IF t # <<>> /\ t[Len(t)].s = " " THEN RStrip(SubSeq(t, 1, Len(t) - 1)) ELSE t

\* the text as typed, blanks included
Strip_Nothing(t) == t

\* str.strip()
Strip(t) == RStrip(LStrip(t))

(***************************************************************************)
(* Schema: tables, columns, limits.                                        *)
(***************************************************************************)
Tables == {"ai_models", "ddos_attacks", "experiments", "experiment_results"}

NULL == 0          \* SQL NULL in an integer column (serial keys start at 1)
NOW == "now"       \* value of CURRENT_TIMESTAMP / func.now()
NOTIME == "null"   \* SQL NULL in a timestamp column

AttackTypes == {"udp_flood", "icmp_flood", "http_flood", "syn_flood"}

NameMax == 100
VersionMax == 50
ExpNameMax == 255
IpMax == 45

Columns(t) ==
    CASE t = "ai_models" ->
           <<"model_id", "name", "version", "description", "is_active">>
      [] t = "experiments" ->
           <<"experiment_id", "name", "start_time", "end_time",
             "total_attacks", "detected_attacks", "model_id">>
      [] t = "ddos_attacks" ->
           <<"attack_id", "source_ip", "target_ip", "attack_type",
             "packet_count", "duration_seconds", "timestamp", "target_ports">>
      [] t = "experiment_results" ->
           <<"result_id", "experiment_id", "attack_id", "is_detected",
             "confidence", "detection_time_ms">>

PkCol(t) == Columns(t)[1]

\* the database before any table exists
NoSchema ==
    [schema |-> FALSE,
     ai_models |-> {}, ddos_attacks |-> {}, experiments |-> {},
     experiment_results |-> {},
     seq |-> [t \in Tables |-> 1]]

\* the content of the four tables, without the sequences
Content(d) ==
    [schema |-> d.schema, ai_models |-> d.ai_models,
     ddos_attacks |-> d.ddos_attacks, experiments |-> d.experiments,
     experiment_results |-> d.experiment_results]

Counts(d) == [t \in Tables |-> Cardinality(d[t])]

Ids(d, t) == {r[PkCol(t)] : r \in d[t]}

\* CREATE TABLE without IF NOT EXISTS after a DROP: the tables start empty
CreateIfNotExists_Recreate(d) == [NoSchema EXCEPT !.schema = TRUE]

\* CREATE TABLE IF NOT EXISTS ...: creates what is absent, keeps the rest
CreateIfNotExists(d) == IF d.schema THEN d ELSE [NoSchema EXCEPT !.schema = TRUE]

\* a DROP that misses ddos_attacks, followed by CREATE of what is absent
DropAndCreate_KeepsAttacks(d) ==
    [NoSchema EXCEPT !.schema = TRUE,
                     !.ddos_attacks = d.ddos_attacks,
                     !.seq = [@ EXCEPT !["ddos_attacks"] = d.seq["ddos_attacks"]]]

\* DROP of all tables (and their sequences) followed by CREATE
DropAndCreate(d) == [NoSchema EXCEPT !.schema = TRUE]

Bump(d, t) == [d EXCEPT !.seq[t] = @ + 1]

(***************************************************************************)
(* INSERT of one row.  Each operator returns [ok, db]: on failure the      *)
(* table is as before; a serial value drawn before the failure stays drawn.*)
(* Foreign keys are checked when the statement ends (FkOk).                *)
(***************************************************************************)
Fail(d) == [ok |-> FALSE, db |-> d]
Done(d) == [ok |-> TRUE, db |-> d]

\* the constraint with one column too many: UNIQUE (name, version, description)
UniqueModel_WithDescription(d, v) ==
    \A r \in d.ai_models :
        ~(r.name = v.name /\ r.version = v.version
          /\ r.description = v.description)

\* CONSTRAINT unique_model_name_version UNIQUE (name, version)
UniqueModel(d, v) ==
    \A r \in d.ai_models : ~(r.name = v.name /\ r.version = v.version)

\* the INSERT that leaves is_active to its column default (TRUE)
InsertModel_DefaultActive(d, v) ==
    IF ~d.schema THEN Fail(d)
    ELSE IF TextLen(v.name) > NameMax \/ TextLen(v.version) > VersionMax
    THEN Fail(d)
    ELSE LET id == d.seq["ai_models"]
             row == [model_id |-> id, name |-> v.name, version |-> v.version,
                     description |-> v.description, is_active |-> TRUE]
             d1 == Bump(d, "ai_models")
         IN  IF ~UniqueModel(d, v) THEN Fail(d1)
             ELSE Done([d1 EXCEPT !.ai_models = @ \cup {row}])

InsertModel(d, v) ==
    IF ~d.schema THEN Fail(d)
    ELSE IF TextLen(v.name) > NameMax \/ TextLen(v.version) > VersionMax
    THEN Fail(d)
    ELSE LET id == d.seq["ai_models"]
             row == [model_id |-> id, name |-> v.name, version |-> v.version,
                     description |-> v.description, is_active |-> v.is_active]
             d1 == Bump(d, "ai_models")
         IN  IF ~UniqueModel(d, v) THEN Fail(d1)
             ELSE Done([d1 EXCEPT !.ai_models = @ \cup {row}])

\* CHECK (packet_count > 0), CHECK (duration_seconds > 0)
CheckAttack(v) == v.packet_count > 0 /\ v.duration_seconds > 0

InsertAttack(d, v) ==
    IF ~d.schema THEN Fail(d)
    ELSE IF TextLen(v.source_ip) > IpMax \/ TextLen(v.target_ip) > IpMax
            \/ v.attack_type \notin AttackTypes
    THEN Fail(d)
    ELSE LET id == d.seq["ddos_attacks"]
             row == [attack_id |-> id, source_ip |-> v.source_ip,
                     target_ip |-> v.target_ip, attack_type |-> v.attack_type,
                     packet_count |-> v.packet_count,
                     duration_seconds |-> v.duration_seconds,
                     timestamp |-> NOW, target_ports |-> v.target_ports]
             d1 == Bump(d, "ddos_attacks")
         IN  IF ~CheckAttack(v) THEN Fail(d1)
             ELSE Done([d1 EXCEPT !.ddos_attacks = @ \cup {row}])

\* the second CHECK without its upper bound
CheckExperiment_NoUpperBound(v) ==
    v.total_attacks >= 0 /\ v.detected_attacks >= 0

\* CHECK (total_attacks >= 0),
\* CHECK (detected_attacks >= 0 AND detected_attacks <= total_attacks)
CheckExperiment(v) ==
    /\ v.total_attacks >= 0
    /\ v.detected_attacks >= 0 /\ v.detected_attacks <= v.total_attacks

\* the name unique per model only: UNIQUE (name, model_id)
UniqueExperiment_PerModel(d, v) ==
    \A r \in d.experiments : ~(r.name = v.name /\ r.model_id = v.model_id)

\* name ... UNIQUE
UniqueExperiment(d, v) == \A r \in d.experiments : r.name # v.name

\* model_id REFERENCES ai_models(model_id)
FkModel(d, v) == v.model_id = NULL \/ v.model_id \in Ids(d, "ai_models")

InsertExperiment(d, v) ==
    IF ~d.schema THEN Fail(d)
    ELSE IF TextLen(v.name) > ExpNameMax THEN Fail(d)
    ELSE LET id == d.seq["experiments"]
             row == [experiment_id |-> id, name |-> v.name,
                     start_time |-> NOW, end_time |-> NOTIME,
                     total_attacks |-> v.total_attacks,
                     detected_attacks |-> v.detected_attacks,
                     model_id |-> v.model_id]
             d1 == Bump(d, "experiments")
         IN  IF ~CheckExperiment(v) \/ ~UniqueExperiment(d, v) THEN Fail(d1)
             ELSE Done([d1 EXCEPT !.experiments = @ \cup {row}])

\* CHECK (confidence >= 0.0 AND confidence <= 1.0), in hundredths;
\* CHECK (detection_time_ms >= 0)
CheckResult(v) ==
    /\ v.confidence >= 0 /\ v.confidence <= 100
    /\ v.detection_time_ms >= 0

\* CONSTRAINT unique_experiment_attack UNIQUE (experiment_id, attack_id)
UniqueResult(d, v) ==
    \A r \in d.experiment_results :
        ~(r.experiment_id = v.experiment_id /\ r.attack_id = v.attack_id)

\* experiment_id REFERENCES experiments, attack_id REFERENCES ddos_attacks
FkResult(d, v) ==
    /\ v.experiment_id \in Ids(d, "experiments")
    /\ v.attack_id \in Ids(d, "ddos_attacks")

InsertResult(d, v) ==
    IF ~d.schema THEN Fail(d)
    ELSE LET id == d.seq["experiment_results"]
             row == [result_id |-> id, experiment_id |-> v.experiment_id,
                     attack_id |-> v.attack_id, is_detected |-> v.is_detected,
                     confidence |-> v.confidence,
                     detection_time_ms |-> v.detection_time_ms]
             d1 == Bump(d, "experiment_results")
         IN  IF ~CheckResult(v) \/ ~UniqueResult(d, v) THEN Fail(d1)
             ELSE Done([d1 EXCEPT !.experiment_results = @ \cup {row}])

\* one INSERT statement with several rows: rows in order, stop at the first
\* that fails
RECURSIVE InsertRows(_, _, _)
InsertRows(d, t, rows) ==
    IF rows = <<>> THEN Done(d)
    ELSE LET r == CASE t = "ai_models" -> InsertModel(d, Head(rows))
                    [] t = "ddos_attacks" -> InsertAttack(d, Head(rows))
                    [] t = "experiments" -> InsertExperiment(d, Head(rows))
                    [] t = "experiment_results" -> InsertResult(d, Head(rows))
         IN  IF r.ok THEN InsertRows(r.db, t, Tail(rows)) ELSE r

\* the foreign keys of the inserted rows, checked when the statement ends
FkOk(d, t, rows) ==
    \A v \in {rows[i] : i \in 1..Len(rows)} :
        CASE t = "experiments" -> FkModel(d, v)
          [] t = "experiment_results" -> FkResult(d, v)
          [] OTHER -> TRUE

\* a failed statement leaves the tables as they were before it
InsertStmt(d, t, rows) ==
    LET r == InsertRows(d, t, rows)
    IN  IF r.ok /\ FkOk(r.db, t, rows) THEN r
        ELSE [ok |-> FALSE, db |-> [d EXCEPT !.seq = r.db.seq]]

\* a rollback that keeps the work of the statements that succeeded
Rollback_KeepsWork(d0, d) == d

\* ROLLBACK: the tables of the last commit; drawn serial values stay drawn
Rollback(d0, d) == [d0 EXCEPT !.seq = d.seq]

(***************************************************************************)
(* DELETE ... WHERE <primary key> = id, with the ON DELETE rules of the    *)
(* referencing tables.  A key that matches no row deletes nothing.         *)
(***************************************************************************)
\* the foreign key of experiments as ON DELETE CASCADE
DeleteModel_Cascade(d, id) ==
    [d EXCEPT
       !.ai_models = {r \in @ : r.model_id # id},
       !.experiments = {r \in @ : r.model_id # id},
       !.experiment_results =
           {r \in @ : \A e \in d.experiments :
                         e.experiment_id = r.experiment_id => e.model_id # id}]

\* the foreign key of experiments without its ON DELETE rule enforced
DeleteModel_NoSetNull(d, id) ==
    [d EXCEPT !.ai_models = {r \in @ : r.model_id # id}]

\* experiments.model_id ... ON DELETE SET NULL
DeleteModel(d, id) ==
    [d EXCEPT
       !.ai_models = {r \in @ : r.model_id # id},
       !.experiments =
           {IF r.model_id = id /\ id \in Ids(d, "ai_models")
            THEN [r EXCEPT !.model_id = NULL] ELSE r : r \in @}]

\* the attack row alone, its results left behind
DeleteAttack_NoCascade(d, id) ==
    [d EXCEPT !.ddos_attacks = {r \in @ : r.attack_id # id}]

\* experiment_results.attack_id ... ON DELETE CASCADE
DeleteAttack(d, id) ==
    [d EXCEPT
       !.ddos_attacks = {r \in @ : r.attack_id # id},
       !.experiment_results = {r \in @ : r.attack_id # id}]

\* the experiment row alone, its results left behind
DeleteExperiment_NoCascade(d, id) ==
    [d EXCEPT !.experiments = {r \in @ : r.experiment_id # id}]

\* experiment_results.experiment_id ... ON DELETE CASCADE
DeleteExperiment(d, id) ==
    [d EXCEPT
       !.experiments = {r \in @ : r.experiment_id # id},
       !.experiment_results = {r \in @ : r.experiment_id # id}]

DeleteResult(d, id) ==
    [d EXCEPT !.experiment_results = {r \in @ : r.result_id # id}]

(***************************************************************************)
(* The demo data set: four INSERT statements, in this order.               *)
(***************************************************************************)
Ports(p) == [null |-> FALSE, v |-> p]
NoPorts == [null |-> TRUE, v |-> <<>>]

DemoModels ==
    << [name |-> W("DeepPacket", 10), version |-> W("1.2.0", 5),
        description |-> W("CNN", 31), is_active |-> TRUE],
       [name |-> W("FlowAnalyzer", 12), version |-> W("2.1.5", 5),
        description |-> W("RNN", 31), is_active |-> TRUE],
       [name |-> W("LegacyDetector", 14), version |-> W("0.9.1", 5),
        description |-> W("rules", 30), is_active |-> FALSE] >>

DemoAttacks ==
    << [source_ip |-> W("192.168.1.100", 13), target_ip |-> W("10.0.0.50", 9),
        attack_type |-> "udp_flood", packet_count |-> 10000,
        duration_seconds |-> 60, target_ports |-> Ports(<<80, 443>>)],
       [source_ip |-> W("fe80::1", 7), target_ip |-> W("2001:db8::1", 11),
        attack_type |-> "http_flood", packet_count |-> 50000,
        duration_seconds |-> 120, target_ports |-> Ports(<<8080>>)],
       [source_ip |-> W("172.16.0.10", 11), target_ip |-> W("10.0.0.100", 10),
        attack_type |-> "syn_flood", packet_count |-> 75000,
        duration_seconds |-> 30, target_ports |-> Ports(<<22, 3389>>)] >>

DemoExperiments ==
    << [name |-> W("Test Run #1 - DeepPacket", 24), model_id |-> 1,
        total_attacks |-> 3, detected_attacks |-> 2] >>

\* the result rows with 0.01 for the confidence 0.10 of the third
DemoResults_WrongConfidence ==
    << [experiment_id |-> 1, attack_id |-> 1, is_detected |-> TRUE,
        confidence |-> 99, detection_time_ms |-> 150],
       [experiment_id |-> 1, attack_id |-> 2, is_detected |-> TRUE,
        confidence |-> 85, detection_time_ms |-> 220],
       [experiment_id |-> 1, attack_id |-> 3, is_detected |-> FALSE,
        confidence |-> 1, detection_time_ms |-> 50] >>

DemoResults ==
    << [experiment_id |-> 1, attack_id |-> 1, is_detected |-> TRUE,
        confidence |-> 99, detection_time_ms |-> 150],
       [experiment_id |-> 1, attack_id |-> 2, is_detected |-> TRUE,
        confidence |-> 85, detection_time_ms |-> 220],
       [experiment_id |-> 1, attack_id |-> 3, is_detected |-> FALSE,
        confidence |-> 10, detection_time_ms |-> 50] >>

DemoStmts ==
    << [t |-> "ai_models", rows |-> DemoModels],
       [t |-> "ddos_attacks", rows |-> DemoAttacks],
       [t |-> "experiments", rows |-> DemoExperiments],
       [t |-> "experiment_results", rows |-> DemoResults] >>

\* statements k.. of the list, one after the other in one transaction; the
\* engine may refuse statement number failAt for a reason of its own
\* (failAt = 0: it refuses none)
RECURSIVE RunStmts(_, _, _, _)
RunStmts(d, stmts, k, failAt) ==
    IF k > Len(stmts) THEN Done(d)
    ELSE IF k = failAt THEN Fail(d)
    ELSE LET r == InsertStmt(d, stmts[k].t, stmts[k].rows)
         IN  IF r.ok THEN RunStmts(r.db, stmts, k + 1, failAt) ELSE r

(***************************************************************************)
(* database.py                                                             *)
(***************************************************************************)
\* psycopg2 connection: "closed", or the state of its transaction
ConnStates == {"closed", "idle", "intrans", "aborted"}

\* a statement on a connection whose transaction has failed is refused
Usable(c) == c \in {"idle", "intrans"}

\* execute_sql_script(conn, <script of create_tables>)
create_tables(d, c) ==
    IF Usable(c) THEN [ok |-> TRUE, db |-> CreateIfNotExists(d), conn |-> "idle"]
    ELSE [ok |-> FALSE, db |-> d, conn |-> "idle"]

\* every statement committed on its own, a failed one skipped
insert_demo_data_Autocommit(d, c, failAt) ==
    LET s1 == IF Usable(c) /\ failAt # 1
              THEN InsertStmt(d, "ai_models", DemoModels) ELSE Fail(d)
        s2 == IF Usable(c) /\ failAt # 2
              THEN InsertStmt(s1.db, "ddos_attacks", DemoAttacks) ELSE Fail(s1.db)
        s3 == IF Usable(c) /\ failAt # 3
              THEN InsertStmt(s2.db, "experiments", DemoExperiments)
              ELSE Fail(s2.db)
        s4 == IF Usable(c) /\ failAt # 4
              THEN InsertStmt(s3.db, "experiment_results", DemoResults)
              ELSE Fail(s3.db)
    IN  [ok |-> s1.ok /\ s2.ok /\ s3.ok /\ s4.ok, db |-> s4.db, conn |-> "idle"]

\* insert_demo_data(conn)
insert_demo_data(d, c, failAt) ==
    LET r == IF Usable(c) THEN RunStmts(d, DemoStmts, 1, failAt) ELSE Fail(d)
    IN  IF r.ok THEN [ok |-> TRUE, db |-> r.db, conn |-> "idle"]
        ELSE [ok |-> FALSE, db |-> Rollback(d, r.db), conn |-> "idle"]

\* rows of a table in key order
RECURSIVE SortByKey(_, _)
SortByKey(rows, pk) ==
    IF rows = {} THEN <<>>
    ELSE LET m == CHOOSE r \in rows : \A q \in rows : r[pk] <= q[pk]
         IN  <<m>> \o SortByKey(rows \ {m}, pk)

\* the tuple of a SELECT that leaves the key column out
RowTuple_WithoutKey(t, r) ==
    [i \in 1..(Len(Columns(t)) - 1) |-> r[Columns(t)[i + 1]]]

\* a row as the tuple a cursor returns
RowTuple(t, r) == [i \in 1..Len(Columns(t)) |-> r[Columns(t)[i]]]

\* fetch_data(conn, table_name): no commit, no rollback
fetch_data(d, c, t) ==
    IF Usable(c) /\ d.schema
    THEN LET rs == SortByKey(d[t], PkCol(t))
         IN  [columns |-> Columns(t),
              rows |-> [i \in 1..Len(rs) |-> RowTuple(t, rs[i])],
              conn |-> "intrans"]
    ELSE [columns |-> <<>>, rows |-> <<>>,
          conn |-> IF c = "closed" THEN c ELSE "aborted"]

(***************************************************************************)
(* What the operator can type and select.                                  *)
(***************************************************************************)
NameInputs == {SP, SP \o W("X", 1) \o SP, W("DeepPacket", 10), W("L", 101)}
VersionInputs == {SP, W("1.2.0", 5), W("V", 51)}

ModelForm(n, v, d, a) ==
    [name |-> n, version |-> v, description |-> d, is_active |-> a]

\* one valid form per name, and the forms that differ from it in one field
ModelForms ==
    {ModelForm(n, W("1.2.0", 5), SP \o W("d", 1), FALSE) : n \in NameInputs}
    \cup {ModelForm(SP \o W("X", 1) \o SP, v, <<>>, TRUE) : v \in VersionInputs}

\* a port list as typed, split at its commas
Blank == [k |-> "blank", v |-> 0]
Bad == [k |-> "bad", v |-> 0]
Num(n) == [k |-> "int", v |-> n]
PortInputs == {<<Blank>>, <<Num(443), Blank, Num(80)>>, <<Bad>>, <<Num(70000)>>}

AttackForm(s, t, p) ==
    [source_ip |-> s, target_ip |-> t, attack_type |-> "icmp_flood",
     packet_count |-> 1000, duration |-> 60, ports |-> p]

\* the forms with both addresses, and the forms that lack one
AttackForms ==
    {AttackForm(W("10.0.0.1", 8), W("10.0.0.2", 8), p) : p \in PortInputs}
    \cup {AttackForm(SP, W("10.0.0.2", 8), <<Blank>>),
          AttackForm(W("10.0.0.1", 8), <<>>, <<Blank>>)}

ExperimentNameInputs == {SP, W("E", 1), W("Test Run #1 - DeepPacket", 24)}
AttackCounts == {<<3, 2>>, <<2, 3>>}

\* every name with consistent counts, and one name with more detected
\* attacks than attacks
ExperimentInputs ==
    {<<n, <<3, 2>>>> : n \in ExperimentNameInputs}
    \cup {<<W("E", 1), c>> : c \in AttackCounts}

\* the result form with a box that has no item to select
ResultForms ==
    {[experiment_id |-> e, attack_id |-> a, is_detected |-> TRUE,
      confidence |-> 50, detection_time_ms |-> 10] :
        e \in {NULL, 1}, a \in {NULL, 1}}

(***************************************************************************)
(* The fields of the forms: as the constructors leave them, and as the     *)
(* handlers leave them after a successful INSERT.                          *)
(***************************************************************************)
\* AIModelsTab (both front ends): empty texts, the check box checked
ModelFormDefault == ModelForm(<<>>, <<>>, <<>>, TRUE)

\* name_edit.clear(); version_edit.clear(); desc_edit.clear()
ClearModelForm(f) ==
    [f EXCEPT !.name = <<>>, !.version = <<>>, !.description = <<>>]

\* AttacksTab of widgets.py: setValue(1000), setValue(60), first item selected
PgAttackFormDefault ==
    [source_ip |-> <<>>, target_ip |-> <<>>, attack_type |-> "udp_flood",
     packet_count |-> 1000, duration |-> 60, ports |-> <<Blank>>]

\* AttacksTab of main.py: the spin boxes at the minimum of their range
SaAttackFormDefault ==
    [PgAttackFormDefault EXCEPT !.packet_count = 1, !.duration = 1]

\* AttacksTab.clear_form (widgets.py)
clear_form(f) ==
    [f EXCEPT !.source_ip = <<>>, !.target_ip = <<>>, !.packet_count = 1000,
              !.duration = 60, !.ports = <<Blank>>]

\* the five calls after model.refresh() in AttacksTab.add_attack (main.py)
SaClearAttackForm(f) ==
    [f EXCEPT !.source_ip = <<>>, !.target_ip = <<>>, !.packet_count = 1,
              !.duration = 1, !.ports = <<Blank>>]

\* ExperimentsTab: empty name, both spin boxes 0, the first item of model_cb
\* selected (no item: no data)
ExperimentFormDefault(cb) ==
    [name |-> <<>>, model_id |-> IF cb = <<>> THEN NULL ELSE cb[1].id,
     total_attacks |-> 0, detected_attacks |-> 0]

\* name_edit.clear(); total_attacks_spin.setValue(0);
\* detected_attacks_spin.setValue(0)
ClearExperimentForm(f) ==
    [f EXCEPT !.name = <<>>, !.total_attacks = 0, !.detected_attacks = 0]

\* form holds the fields of the form submitted in the last step, as its
\* handler left them; NoForm: the last step submitted no form
NoForm == [tab |-> "none", fields |-> [name |-> <<>>]]

(***************************************************************************)
(* models.py: PostgreSQLTableModel                                         *)
(***************************************************************************)
PgTabs == {"ai_models", "ddos_attacks"}
NoModel == [columns |-> <<>>, rows |-> <<>>]

\* refresh() of the adapters of both tabs, one after the other
RefreshAll(d, c) ==
    LET a == fetch_data(d, c, "ai_models")
        b == fetch_data(d, a.conn, "ddos_attacks")
    IN  [model |-> [t \in PgTabs |->
                      IF t = "ai_models"
                      THEN [columns |-> a.columns, rows |-> a.rows]
                      ELSE [columns |-> b.columns, rows |-> b.rows]],
         conn |-> b.conn]

(***************************************************************************)
(* widgets.py                                                              *)
(***************************************************************************)
\* the window builds the tabs on the new connection
on_connection_established(d, c) == RefreshAll(d, c)

\* the window refreshes the adapter of every tab
refresh_all_tabs(d, c) == RefreshAll(d, c)

\* the window drops the tabs and their cached rows
on_connection_closed == [t \in PgTabs |-> NoModel]

\* AIModelsTab.add_model: "with self.conn" commits, or rolls back and
\* re-raises; both except branches roll back again
PgAddModelResult(d, c, f) ==
    LET v == [name |-> Strip(f.name), version |-> Strip(f.version),
              description |-> Strip(f.description), is_active |-> f.is_active]
        r == IF Usable(c) THEN InsertStmt(d, "ai_models", <<v>>) ELSE Fail(d)
    IN  IF v.name = <<>> \/ v.version = <<>>
        THEN [outcome |-> "invalid", db |-> d, conn |-> c, refresh |-> FALSE,
              form |-> f]
        ELSE IF r.ok
        THEN [outcome |-> "ok", db |-> r.db, conn |-> "idle", refresh |-> TRUE,
              form |-> ClearModelForm(f)]
        ELSE [outcome |-> "error", db |-> Rollback(d, r.db), conn |-> "idle",
              refresh |-> FALSE, form |-> f]

\* [int(p.strip()) for p in text.split(',') if p.strip()] if text else None
ParsePorts(pt) ==
    IF pt = <<Blank>> THEN [err |-> FALSE, ports |-> NoPorts]
    ELSE IF \E i \in 1..Len(pt) : pt[i].k = "bad"
    THEN [err |-> TRUE, ports |-> NoPorts]
    ELSE LET ints == SelectSeq(pt, LAMBDA x : x.k = "int")
         IN  [err |-> FALSE,
              ports |-> Ports([i \in 1..Len(ints) |-> ints[i].v])]

\* AttacksTab.add_attack: the port list is parsed outside the try block
PgAddAttackResult(d, c, f) ==
    LET p == ParsePorts(f.ports)
        v == [source_ip |-> Strip(f.source_ip), target_ip |-> Strip(f.target_ip),
              attack_type |-> f.attack_type, packet_count |-> f.packet_count,
              duration_seconds |-> f.duration, target_ports |-> p.ports]
        r == IF Usable(c) THEN InsertStmt(d, "ddos_attacks", <<v>>) ELSE Fail(d)
    IN  IF p.err
        THEN [outcome |-> "raised", db |-> d, conn |-> c, refresh |-> FALSE,
              form |-> f]
        ELSE IF v.source_ip = <<>> \/ v.target_ip = <<>>
        THEN [outcome |-> "invalid", db |-> d, conn |-> c, refresh |-> FALSE,
              form |-> f]
        ELSE IF r.ok
        THEN [outcome |-> "ok", db |-> r.db, conn |-> "idle", refresh |-> TRUE,
              form |-> clear_form(f)]
        ELSE [outcome |-> "error", db |-> Rollback(d, r.db), conn |-> "idle",
              refresh |-> FALSE, form |-> f]

(***************************************************************************)
(* main.py                                                                 *)
(***************************************************************************)
\* insert_demo_data_sa: engine.begin() commits, or rolls back and re-raises
insert_demo_data_sa(d, failAt) ==
    LET r == RunStmts(d, DemoStmts, 1, failAt)
    IN  IF r.ok THEN r ELSE [ok |-> FALSE, db |-> Rollback(d, r.db)]

\* drop_and_create_schema_sa; failing = "none", or the call that fails
drop_and_create_schema_sa(d, failing) ==
    CASE failing = "none" -> [ok |-> TRUE, db |-> DropAndCreate(d)]
      [] failing = "drop_all" -> [ok |-> FALSE, db |-> d]
      [] failing = "create_all" -> [ok |-> FALSE, db |-> NoSchema]

\* SATableModel.refresh: SELECT ... ORDER BY <primary key>; a failed
\* SELECT keeps the rows of the last one
SaRefresh(d, t, old) == IF d.schema THEN SortByKey(d[t], PkCol(t)) ELSE old

\* a refresh whose failed SELECT leaves no rows
refresh_ClearsOnFailure(d, t, old, fails) ==
    IF fails THEN <<>> ELSE SaRefresh(d, t, old)

\* SATableModel.refresh; fails: the SELECT raises SQLAlchemyError, which
\* refresh catches between beginResetModel and endResetModel
refresh(d, t, old, fails) == IF fails THEN old ELSE SaRefresh(d, t, old)

\* a handler that refreshes the adapter of every tab
RefreshOwn_EveryTab(m, d, t, fails) ==
    [u \in Tables |-> refresh(d, u, m[u], fails)]

\* self.model.refresh() at the end of a handler of the tab of table t: the
\* adapters m of the window with the adapter of that tab refreshed
RefreshOwn(m, d, t, fails) == [m EXCEPT ![t] = refresh(d, t, @, fails)]

\* ExperimentsTab.refresh_models: the items (name, model_id) of model_cb
refresh_models(d) ==
    IF d.schema
    THEN LET rs == SortByKey(d.ai_models, "model_id")
         IN  [i \in 1..Len(rs) |-> [name |-> rs[i].name, id |-> rs[i].model_id]]
    ELSE <<>>

\* the number of the row taken as its key, whatever keys the adapter holds
pk_value_at_RowNumber(rows, t, row) == row + 1

\* SATableModel.pk_value_at
pk_value_at(rows, t, row) ==
    IF 0 <= row /\ row < Len(rows) THEN rows[row + 1][PkCol(t)] ELSE NULL

NoRows == [t \in Tables |-> <<>>]
Placeholder == "disconnected"
EntityTabs == <<"ai_models", "ddos_attacks", "experiments">>

\* MainWindow.create_tabs: without an engine the placeholder tab; with one
\* the tabs of the entities, up to ResultsTab, whose constructor raises
\* NameError (QDoubleSpinBox is not imported)
create_tabs(tb, eng) ==
    IF ~eng THEN [tabs |-> Append(tb, Placeholder), raised |-> FALSE]
    ELSE [tabs |-> tb \o EntityTabs, raised |-> TRUE]

HasTab(tb, t) == \E i \in 1..Len(tb) : tb[i] = t

\* AIModelsTab.add_model
SaAddModelResult(d, f) ==
    LET v == [name |-> Strip(f.name), version |-> Strip(f.version),
              description |-> Strip(f.description), is_active |-> f.is_active]
        r == InsertStmt(d, "ai_models", <<v>>)
    IN  IF v.name = <<>> \/ v.version = <<>>
        THEN [outcome |-> "invalid", db |-> d, form |-> f]
        ELSE IF r.ok
        THEN [outcome |-> "ok", db |-> r.db, form |-> ClearModelForm(f)]
        ELSE [outcome |-> "error", db |-> Rollback(d, r.db), form |-> f]

PortRangeOk(p) == \A i \in 1..Len(p.v) : ~(p.v[i] <= 0 \/ p.v[i] > 65535)

\* AttacksTab.add_attack
SaAddAttackResult(d, f) ==
    LET p == ParsePorts(f.ports)
        v == [source_ip |-> Strip(f.source_ip), target_ip |-> Strip(f.target_ip),
              attack_type |-> f.attack_type, packet_count |-> f.packet_count,
              duration_seconds |-> f.duration, target_ports |-> p.ports]
        r == InsertStmt(d, "ddos_attacks", <<v>>)
    IN  IF p.err \/ ~PortRangeOk(p.ports)
        THEN [outcome |-> "invalid", db |-> d, form |-> f]
        ELSE IF v.source_ip = <<>> \/ v.target_ip = <<>>
        THEN [outcome |-> "invalid", db |-> d, form |-> f]
        ELSE IF r.ok
        THEN [outcome |-> "ok", db |-> r.db, form |-> SaClearAttackForm(f)]
        ELSE [outcome |-> "error", db |-> Rollback(d, r.db), form |-> f]

\* the handler with the three resetting calls in a finally branch
SaAddExperimentResult_ClearsAlways(d, f) ==
    LET v == [name |-> Strip(f.name), model_id |-> f.model_id,
              total_attacks |-> f.total_attacks,
              detected_attacks |-> f.detected_attacks]
        r == InsertStmt(d, "experiments", <<v>>)
    IN  IF v.name = <<>> THEN [outcome |-> "invalid", db |-> d, form |-> f]
        ELSE IF v.detected_attacks > v.total_attacks
        THEN [outcome |-> "invalid", db |-> d, form |-> f]
        ELSE IF r.ok
        THEN [outcome |-> "ok", db |-> r.db, form |-> ClearExperimentForm(f)]
        ELSE [outcome |-> "error", db |-> Rollback(d, r.db),
              form |-> ClearExperimentForm(f)]

\* ExperimentsTab.add_experiment; model_id is model_cb.currentData()
SaAddExperimentResult(d, f) ==
    LET v == [name |-> Strip(f.name), model_id |-> f.model_id,
              total_attacks |-> f.total_attacks,
              detected_attacks |-> f.detected_attacks]
        r == InsertStmt(d, "experiments", <<v>>)
    IN  IF v.name = <<>> THEN [outcome |-> "invalid", db |-> d, form |-> f]
        ELSE IF v.detected_attacks > v.total_attacks
        THEN [outcome |-> "invalid", db |-> d, form |-> f]
        ELSE IF r.ok
        THEN [outcome |-> "ok", db |-> r.db, form |-> ClearExperimentForm(f)]
        ELSE [outcome |-> "error", db |-> Rollback(d, r.db), form |-> f]

\* ResultsTab.add_result; experiment_id and attack_id are the currentData()
\* of the two boxes (NULL: the box has no item)
SaAddResultResult(d, f) ==
    LET r == InsertStmt(d, "experiment_results", <<f>>)
    IN  IF f.experiment_id = NULL \/ f.attack_id = NULL
        THEN [outcome |-> "invalid", db |-> d, form |-> f]
        ELSE IF r.ok
        THEN [outcome |-> "ok", db |-> r.db,
              form |-> [f EXCEPT !.confidence = 0, !.detection_time_ms = 0]]
        ELSE [outcome |-> "error", db |-> Rollback(d, r.db), form |-> f]

\* the statement as an operator on the database
DeleteByKey(d, t, id) ==
    CASE t = "ai_models" -> DeleteModel(d, id)
      [] t = "ddos_attacks" -> DeleteAttack(d, id)
      [] t = "experiments" -> DeleteExperiment(d, id)
      [] t = "experiment_results" -> DeleteResult(d, id)

\* DELETE ... WHERE <primary key> >= id, limited to the first row
SaDelete_FirstKeyFrom(d, t, id) ==
    LET later == {k \in Ids(d, t) : k >= id}
    IN  IF later = {} THEN d
        ELSE DeleteByKey(d, t, CHOOSE k \in later : \A j \in later : k <= j)

\* delete_selected of the three tabs: DELETE ... WHERE <primary key> = id
SaDelete(d, t, id) == DeleteByKey(d, t, id)

(***************************************************************************)
(* The state machine.                                                      *)
(***************************************************************************)
SeqOk(d) == \A t \in Tables : d.seq[t] <= MaxSeq + 1

\* a form handler that got as far as its INSERT statement has issued it
Submitted(r) ==
    IF r.outcome \in {"ok", "error"}
    THEN submits < MaxSubmits /\ submits' = submits + 1 /\ SeqOk(r.db)
    ELSE UNCHANGED submits

Op(name, outcome) == [op |-> name, outcome |-> outcome]

\* SetupTab.setup_ui: the connect button as created, the other three disabled
InitialButtons ==
    [connect |-> TRUE, disconnect |-> FALSE, create |-> FALSE, demo |-> FALSE]

\* the four setEnabled calls of SetupTab.connect_db
ConnectedButtons ==
    [connect |-> FALSE, disconnect |-> TRUE, create |-> TRUE, demo |-> TRUE]

\* disconnect_db without its last setEnabled call
DisconnectedButtons_SeedLeftEnabled ==
    [connect |-> TRUE, disconnect |-> FALSE, create |-> FALSE, demo |-> TRUE]

\* the four setEnabled calls of SetupTab.disconnect_db
DisconnectedButtons ==
    [connect |-> TRUE, disconnect |-> FALSE, create |-> FALSE, demo |-> FALSE]

Init ==
    /\ db = NoSchema
    /\ submits = 0
    /\ app = "none"
    /\ conn = "closed"
    /\ pgModel = [t \in PgTabs |-> NoModel]
    /\ engine = FALSE
    /\ tabs = <<>>
    /\ saModel = NoRows
    /\ model_cb = <<>>
    /\ form = NoForm
    /\ last = Op("start", "ok")
    /\ buttons = InitialButtons
    /\ window = "closed"

saVars == <<engine, tabs, saModel, model_cb>>
pgVars == <<conn, pgModel, buttons, window>>

\* SetupTab.connect_db
PgConnect(ok) ==
    /\ app \in {"none", "pg"}
    /\ buttons.connect
    /\ IF ok
       THEN LET r == on_connection_established(db, "idle")
            IN  /\ conn' = r.conn
                /\ buttons' = ConnectedButtons
                /\ window' = "established"
                /\ pgModel' = r.model
                /\ last' = Op("PgConnect", "ok")
       ELSE /\ conn' = "closed"
            /\ UNCHANGED <<pgModel, buttons, window>>
            /\ last' = Op("PgConnect", "error")
    /\ app' = "pg"
    /\ form' = NoForm
    /\ UNCHANGED <<db, submits, saVars>>

\* SetupTab.disconnect_db
PgDisconnect ==
    /\ buttons.disconnect
    /\ conn' = "closed"
    /\ buttons' = DisconnectedButtons
    /\ window' = "closed"
    /\ pgModel' = on_connection_closed
    /\ form' = NoForm
    /\ last' = Op("PgDisconnect", "ok")
    /\ UNCHANGED <<db, submits, app, saVars>>

\* create_tables(conn)
PgCreateTables ==
    /\ buttons.create
    /\ conn # "closed"
    /\ LET r == create_tables(db, conn)
       IN  /\ db' = r.db
           /\ conn' = r.conn
           /\ last' = Op("PgCreateTables", IF r.ok THEN "ok" ELSE "error")
    /\ form' = NoForm
    /\ UNCHANGED <<submits, app, pgModel, buttons, window, saVars>>

\* SetupTab.add_demo_data from the return of insert_demo_data, r, on
PgDemoDataInserted(r) ==
    /\ SeqOk(r.db)
    /\ db' = r.db
    /\ IF r.ok
       THEN LET f == refresh_all_tabs(r.db, r.conn)
            IN  conn' = f.conn /\ pgModel' = f.model
       ELSE conn' = r.conn /\ UNCHANGED pgModel
    /\ last' = Op("PgAddDemoData", IF r.ok THEN "ok" ELSE "error")

\* SetupTab.add_demo_data
PgAddDemoData(failAt) ==
    /\ buttons.demo
    /\ conn # "closed"
    /\ PgDemoDataInserted(insert_demo_data(db, conn, failAt))
    /\ form' = NoForm
    /\ UNCHANGED <<submits, app, buttons, window, saVars>>

\* the refresh button of a tab
PgRefresh(t) ==
    /\ window = "established"
    /\ conn # "closed"
    /\ LET f == fetch_data(db, conn, t)
       IN  /\ conn' = f.conn
           /\ pgModel' = [pgModel EXCEPT
                            ![t] = [columns |-> f.columns, rows |-> f.rows]]
           /\ last' = Op("PgRefresh", IF f.conn = "intrans" THEN "ok" ELSE "error")
    /\ form' = NoForm
    /\ UNCHANGED <<db, submits, app, buttons, window, saVars>>

PgSubmit(name, t, r) ==
    /\ Submitted(r)
    /\ db' = r.db
    /\ IF r.refresh
       THEN LET f == fetch_data(r.db, r.conn, t)
            IN  /\ conn' = f.conn
                /\ pgModel' = [pgModel EXCEPT
                                 ![t] = [columns |-> f.columns, rows |-> f.rows]]
       ELSE conn' = r.conn /\ UNCHANGED pgModel
    /\ form' = [tab |-> t, fields |-> r.form]
    /\ last' = Op(name, r.outcome)
    /\ UNCHANGED <<app, buttons, window, saVars>>

\* AIModelsTab.add_model (widgets.py)
PgAddModel(f) ==
    /\ window = "established"
    /\ conn # "closed"
    /\ PgSubmit("PgAddModel", "ai_models", PgAddModelResult(db, conn, f))

\* AttacksTab.add_attack (widgets.py)
PgAddAttack(f) ==
    /\ window = "established"
    /\ conn # "closed"
    /\ PgSubmit("PgAddAttack", "ddos_attacks", PgAddAttackResult(db, conn, f))

\* MainWindow.connect_db from the return of insert_demo_data_sa, r, on:
\* the tabs are built and refreshed
SaSeeded(r) ==
    LET c == create_tabs(<<>>, TRUE)
    IN  /\ db' = r.db
        /\ submits' = 0
        /\ engine' = ~c.raised
        /\ tabs' = IF c.raised THEN create_tabs(c.tabs, FALSE).tabs
                   ELSE c.tabs
        /\ saModel' = [t \in Tables |->
                         IF HasTab(c.tabs, t)
                         THEN SaRefresh(r.db, t, <<>>) ELSE <<>>]
        /\ model_cb' = refresh_models(r.db)
        /\ form' = NoForm
        /\ last' = Op("SaConnect", IF r.ok THEN "ok" ELSE "seed_error")

\* MainWindow.connect_db from the return of drop_and_create_schema_sa, s, on
SaSchemaDone(s, failAt) ==
    IF ~s.ok
    THEN /\ failAt = 0
         /\ db' = s.db
         /\ submits' = IF s.db = db THEN submits ELSE 0
         /\ engine' = TRUE
         /\ tabs' = <<>>
         /\ saModel' = NoRows
         /\ model_cb' = <<>>
         /\ form' = NoForm
         /\ last' = Op("SaConnect", "schema_error")
    ELSE SaSeeded(insert_demo_data_sa(s.db, failAt))

\* MainWindow.connect_db (at start and from the reconnect button)
SaConnect(connOk, failing, failAt) ==
    /\ app \in {"none", "sa"}
    /\ ~connOk => failing = "none" /\ failAt = 0
    /\ app' = "sa"
    /\ UNCHANGED pgVars
    /\ IF ~connOk
       THEN /\ Len(tabs) < MaxTabs
            /\ engine' = FALSE
            /\ tabs' = create_tabs(tabs, FALSE).tabs
            /\ form' = NoForm
            /\ UNCHANGED <<db, submits, saModel, model_cb>>
            /\ last' = Op("SaConnect", "connect_error")
       ELSE SaSchemaDone(drop_and_create_schema_sa(db, failing), failAt)

\* the main window is closed
SaClose ==
    /\ app = "sa"
    /\ engine' = FALSE
    /\ tabs' = <<>>
    /\ saModel' = NoRows
    /\ model_cb' = <<>>
    /\ form' = NoForm
    /\ last' = Op("SaClose", "ok")
    /\ UNCHANGED <<db, submits, app, pgVars>>

SaSubmit(name, t, r) ==
    /\ app = "sa"
    /\ HasTab(tabs, t)
    /\ Submitted(r)
    /\ db' = r.db
    /\ saModel' = IF r.outcome = "ok"
                  THEN RefreshOwn(saModel, r.db, t, FALSE)
                  ELSE saModel
    /\ form' = [tab |-> t, fields |-> r.form]
    /\ last' = Op(name, r.outcome)
    /\ UNCHANGED <<app, engine, tabs, model_cb, pgVars>>

\* AIModelsTab.add_model (main.py)
SaAddModel(f) == SaSubmit("SaAddModel", "ai_models", SaAddModelResult(db, f))

\* AttacksTab.add_attack (main.py)
SaAddAttack(f) == SaSubmit("SaAddAttack", "ddos_attacks", SaAddAttackResult(db, f))

\* the fields of the experiment form; i is the selected item of model_cb
\* (0 when the box is empty)
ExperimentFields(name, i, counts) ==
    [name |-> name, model_id |-> IF i = 0 THEN NULL ELSE model_cb[i].id,
     total_attacks |-> counts[1], detected_attacks |-> counts[2]]

\* ExperimentsTab.add_experiment, with the first or the last item selected
SaAddExperiment(name, i, counts) ==
    /\ IF model_cb = <<>> THEN i = 0 ELSE i \in {1, Len(model_cb)}
    /\ SaSubmit("SaAddExperiment", "experiments",
                SaAddExperimentResult(db, ExperimentFields(name, i, counts)))

DeleteOp(t) ==
    CASE t = "ai_models" -> "SaDeleteModel"
      [] t = "ddos_attacks" -> "SaDeleteAttack"
      [] t = "experiments" -> "SaDeleteExperiment"
      [] t = "experiment_results" -> "SaDeleteResult"

\* delete_selected of the tab of table t; row = -1: no row is selected;
\* fails = "delete": the engine raises SQLAlchemyError on the DELETE
\* (engine.begin() rolls back, the handler reports it and does not refresh);
\* fails = "refresh": the DELETE is committed and the SELECT of the refresh
\* that follows raises
SaDeleteSelected(t, row, fails) ==
    /\ app = "sa"
    /\ row \in -1..(Len(saModel[t]) - 1)
    /\ row = -1 => fails = "none"
    /\ HasTab(tabs, t)
    /\ IF row = -1
       THEN /\ UNCHANGED <<db, submits, saModel>>
            /\ last' = Op(DeleteOp(t), "noop")
       ELSE LET d == SaDelete(db, t, pk_value_at(saModel[t], t, row))
            IN  /\ submits < MaxSubmits
                /\ submits' = submits + 1
                /\ IF fails = "delete"
                   THEN /\ db' = Rollback(db, d)
                        /\ UNCHANGED saModel
                        /\ last' = Op(DeleteOp(t), "error")
                   ELSE /\ db' = d
                        /\ saModel' =
                             RefreshOwn(saModel, d, t, fails = "refresh")
                        /\ last' = Op(DeleteOp(t),
                                      IF fails = "refresh" THEN "refresh_error"
                                      ELSE "ok")
    /\ form' = NoForm
    /\ UNCHANGED <<app, engine, tabs, model_cb, pgVars>>

Next ==
    \/ \E ok \in BOOLEAN : PgConnect(ok)
    \/ PgDisconnect
    \/ PgCreateTables
    \/ \E k \in 0..4 : PgAddDemoData(k)
    \/ \E t \in PgTabs : PgRefresh(t)
    \/ \E f \in ModelForms : PgAddModel(f)
    \/ \E f \in AttackForms : PgAddAttack(f)
    \/ \E ok \in BOOLEAN, failing \in {"none", "drop_all", "create_all"},
          k \in 0..4 : SaConnect(ok, failing, k)
    \/ SaClose
    \/ \E f \in ModelForms : SaAddModel(f)
    \/ \E f \in AttackForms : SaAddAttack(f)
    \/ \E x \in ExperimentInputs, i \in 0..MaxSeq :
          SaAddExperiment(x[1], i, x[2])
    \/ \E t \in Tables, row \in -1..MaxSeq,
          fails \in {"none", "delete", "refresh"} :
             SaDeleteSelected(t, row, fails)

Spec == Init /\ [][Next]_vars

(***************************************************************************)
(* Properties.                                                             *)
(***************************************************************************)
AddModelStep(f) ==
    /\ last'.op \in {"PgAddModel", "SaAddModel"}
    /\ PgAddModel(f) \/ SaAddModel(f)

SeedStep(k) == last'.op = "PgAddDemoData" /\ PgAddDemoData(k)

\* MainWindow.connect_db with a schema that is created; k is the statement
\* of the seed that the engine refuses (0: none)
SaSeedStep(k) == last'.op = "SaConnect" /\ SaConnect(TRUE, "none", k)

\* delete_selected of the tab of table t, with a row selected
DeleteStep(t, row) ==
    /\ last'.op = DeleteOp(t) /\ last'.outcome \in {"ok", "noop"}
    /\ SaDeleteSelected(t, row, "none")

\* the (name, version) pair of the form, trimmed, is in ai_models
PairPresent(d, f) ==
    \E r \in d.ai_models :
        r.name = Strip(f.name) /\ r.version = Strip(f.version)

\* C1: a model submit whose (name, version) pair is already in ai_models is
\* rejected with an error and leaves the number of rows of ai_models as it was
C1_DuplicateModelRejected ==
    [][\A f \in ModelForms :
          AddModelStep(f) /\ PairPresent(db, f)
          => /\ last'.outcome = "error"
             /\ Cardinality(db'.ai_models) = Cardinality(db.ai_models)]_vars

\* a duplicate of a demo model was refused: the refused INSERT drew serial
\* value 4 and the table still holds the three demo rows
C1_Witness ==
    /\ last = Op("SaAddModel", "error")
    /\ submits = 1
    /\ db.seq["ai_models"] = 5
    /\ Cardinality(db.ai_models) = 3

\* the rows the ai_models tab shows: what the last fetch of its adapter returned
ModelRowsShown ==
    IF app = "pg" THEN pgModel["ai_models"].rows
    ELSE [i \in 1..Len(saModel["ai_models"]) |->
            RowTuple("ai_models", saModel["ai_models"][i])]

\* the fetched rows are the rows before the submit plus exactly one new row
\* that carries the four values v
OneNewRow(before, fetched, v) ==
    LET old == {RowTuple("ai_models", r) : r \in before}
        new == {fetched[i] : i \in 1..Len(fetched)}
    IN  /\ Len(fetched) = Cardinality(new)
        /\ old \subseteq new
        /\ \E x \in new \ old :
              /\ new \ old = {x}
              /\ x[2] = v.name /\ x[3] = v.version
              /\ x[4] = v.description /\ x[5] = v.is_active

\* the values the handlers send: the text fields without surrounding blanks
Trimmed(f) ==
    [name |-> Strip(f.name), version |-> Strip(f.version),
     description |-> Strip(f.description), is_active |-> f.is_active]

\* C2 as stated: every model submit with a non-empty name and version whose
\* (name, version) pair is not in ai_models is followed by a fetch that holds
\* the rows before plus exactly one new row with the submitted values
C2_Original ==
    [][\A f \in ModelForms :
          /\ AddModelStep(f)
          /\ f.name # <<>> /\ f.version # <<>>
          /\ \A r \in db.ai_models : ~(r.name = f.name /\ r.version = f.version)
          => OneNewRow(db.ai_models, ModelRowsShown', f)]_vars

\* C2: a model submit on an existing schema, whose name and version are
\* non-empty after trimming and at most 100 and 50 characters long, and whose
\* trimmed (name, version) pair is not in ai_models, succeeds, and the fetch
\* that follows holds the rows before plus exactly one new row with the trimmed
\* name, version and description and the submitted active flag
C2_UniqueModelAdded ==
    [][\A f \in ModelForms :
          /\ AddModelStep(f)
          /\ db.schema
          /\ Trimmed(f).name # <<>> /\ Trimmed(f).version # <<>>
          /\ TextLen(Trimmed(f).name) <= NameMax
          /\ TextLen(Trimmed(f).version) <= VersionMax
          /\ ~PairPresent(db, f)
          => /\ last'.outcome = "ok"
             /\ OneNewRow(db.ai_models, ModelRowsShown', Trimmed(f))]_vars

\* a model typed as " X " with the active box unchecked was added next to the
\* three demo models, and the tab shows the four rows
C2_Witness ==
    /\ last = Op("SaAddModel", "ok")
    /\ Len(ModelRowsShown) = 4
    /\ \E r \in db.ai_models :
          /\ r.model_id = 4 /\ r.name = W("X", 1) /\ r.version = W("1.2.0", 5)
          /\ r.description = W("d", 1) /\ ~r.is_active

\* C3: a seed invoked right after a seed that succeeded leaves each of the four
\* tables with the number of rows it had after the first one
C3_SeedIdempotent ==
    [][\A k \in 0..4 :
          last = Op("PgAddDemoData", "ok") /\ SeedStep(k)
          => Counts(db') = Counts(db)]_vars

\* the second seed in a row has run on the demo rows of the first: it drew
\* serial value 4 for a model and was refused
C3_Witness ==
    /\ last = Op("PgAddDemoData", "error")
    /\ submits = 0
    /\ db.seq["ai_models"] = 5
    /\ db.seq["ddos_attacks"] = 4
    /\ Counts(db) = [t \in Tables |-> IF t = "experiments" THEN 1 ELSE 3]

\* C4: a seed invoked while ai_models holds a row attempts no insert, changes
\* no table and reports an outcome of its own, neither success nor failure
C4_AlreadySeeded ==
    [][\A k \in 0..4 :
          SeedStep(k) /\ db.ai_models # {}
          => /\ db' = db
             /\ last'.outcome \notin {"ok", "error"}]_vars

\* the demo rows in d: three models, the experiment, and three results that
\* each reference the demo experiment and the demo attack of their confidence
DemoRowsPresent(d) ==
    /\ \A i \in 1..Len(DemoModels) :
          \E r \in d.ai_models :
             r.name = DemoModels[i].name /\ r.version = DemoModels[i].version
    /\ \A i \in 1..Len(DemoAttacks) :
          \E r \in d.ddos_attacks : r.source_ip = DemoAttacks[i].source_ip
    /\ \E e \in d.experiments : e.name = DemoExperiments[1].name
    /\ Counts(d)["ai_models"] = 3 /\ Counts(d)["experiments"] = 1
    /\ Counts(d)["experiment_results"] = 3
    /\ \A i \in 1..Len(DemoResults) :
          \E r \in d.experiment_results, e \in d.experiments,
             a \in d.ddos_attacks :
             /\ r.confidence = DemoResults[i].confidence
             /\ r.experiment_id = e.experiment_id
             /\ e.name = DemoExperiments[1].name
             /\ r.attack_id = a.attack_id
             /\ a.source_ip = DemoAttacks[i].source_ip

\* C5: wherever the schema exists and ai_models is empty, a seed that the
\* engine does not refuse for a reason of its own succeeds and leaves the demo
\* rows, each result referencing the demo experiment and a demo attack
C5_SeedOnEmptyModels ==
    [][SeedStep(0) /\ db.schema /\ db.ai_models = {}
       => last'.outcome = "ok" /\ DemoRowsPresent(db')]_vars

\* C6: a seed either fails, and then every table is as it was before the seed
\* (for the SQLAlchemy front end: as the schema creation left it), or it
\* succeeds with the rows of all four statements; it fails whenever one of the
\* four statements is refused
C6_SeedAllOrNothing ==
    [][/\ \A k \in 0..4 :
            SeedStep(k)
            => /\ \/ last'.outcome = "error" /\ Content(db') = Content(db)
                  \/ /\ last'.outcome = "ok"
                     /\ \A t \in Tables :
                           Counts(db')[t] = Counts(db)[t] + Len(DemoStmts[
                               CHOOSE i \in 1..4 : DemoStmts[i].t = t].rows)
               /\ k # 0 => last'.outcome = "error"
       /\ \A k \in 0..4 :
            SaSeedStep(k)
            => /\ \/ /\ last'.outcome = "seed_error"
                     /\ Content(db') = Content(DropAndCreate(db))
                  \/ last'.outcome = "ok" /\ DemoRowsPresent(db')
               /\ k # 0 => last'.outcome = "seed_error"]_vars

\* a seed failed at its third or fourth statement: the serial values of the
\* three attacks are drawn, and no table holds a row
C6_Witness ==
    /\ last = Op("PgAddDemoData", "error")
    /\ db.schema
    /\ db.seq["ddos_attacks"] = 4
    /\ Counts(db) = [t \in Tables |-> 0]

\* the (name, version) pairs of fetched ai_models rows
NameVersions(rows) == {<<rows[i][2], rows[i][3]>> : i \in 1..Len(rows)}

\* the confidences of fetched experiment_results rows
Confidences(rows) == {rows[i][5] : i \in 1..Len(rows)}

\* C7: a seed on the freshly created, empty schema succeeds; fetch_data of
\* ai_models then returns exactly DeepPacket/1.2.0, FlowAnalyzer/2.1.5 and
\* LegacyDetector/0.9.1, and fetch_data of experiment_results exactly three
\* rows with the confidences 0.99, 0.85 and 0.10 (in hundredths)
C7_EndToEnd ==
    [][SeedStep(0) /\ db = DropAndCreate(db)
       => /\ last'.outcome = "ok"
          /\ Len(fetch_data(db', conn', "ai_models").rows) = 3
          /\ NameVersions(fetch_data(db', conn', "ai_models").rows)
               = { <<W("DeepPacket", 10), W("1.2.0", 5)>>,
                   <<W("FlowAnalyzer", 12), W("2.1.5", 5)>>,
                   <<W("LegacyDetector", 14), W("0.9.1", 5)>> }
          /\ Len(fetch_data(db', conn', "experiment_results").rows) = 3
          /\ Confidences(fetch_data(db', conn', "experiment_results").rows)
               = {99, 85, 10}]_vars

\* connect, create schema, seed: the seed succeeded with the first serial
\* values and the ai_models tab shows three rows
C7_Witness ==
    /\ last = Op("PgAddDemoData", "ok")
    /\ submits = 0
    /\ db.seq = [t \in Tables |-> IF t = "experiments" THEN 2 ELSE 4]
    /\ Len(pgModel["ai_models"].rows) = 3

\* the key of the row selected in the tab of table t
SelectedKey(t, row) == pk_value_at(saModel[t], t, row)

\* C8: deleting an experiment removes, in the same step, the experiment_results
\* rows that reference it and no other experiment_results row
C8_ExperimentCascade ==
    [][\A row \in 0..MaxSeq :
          DeleteStep("experiments", row)
          => /\ SelectedKey("experiments", row) \notin Ids(db', "experiments")
             /\ db'.experiment_results =
                  {r \in db.experiment_results :
                     r.experiment_id # SelectedKey("experiments", row)}]_vars

\* experiment 1 was deleted after the seed: its three results are gone with it
C8_Witness ==
    /\ last = Op("SaDeleteExperiment", "ok")
    /\ submits = 1
    /\ db.seq["experiment_results"] = 4
    /\ db.experiments = {}
    /\ db.experiment_results = {}
    /\ Cardinality(db.ddos_attacks) = 3

\* C9: deleting an attack succeeds whether or not results reference it, and
\* removes the attack row and exactly the experiment_results rows that
\* reference it; experiments and ai_models stay as they were
C9_AttackCascade ==
    [][\A row \in 0..MaxSeq :
          DeleteStep("ddos_attacks", row)
          => /\ last'.outcome = "ok"
             /\ db'.ddos_attacks =
                  {r \in db.ddos_attacks :
                     r.attack_id # SelectedKey("ddos_attacks", row)}
             /\ db'.experiment_results =
                  {r \in db.experiment_results :
                     r.attack_id # SelectedKey("ddos_attacks", row)}
             /\ db'.experiments = db.experiments
             /\ db'.ai_models = db.ai_models]_vars

\* a demo attack was deleted while a result referenced it: two attacks and two
\* results are left, next to the experiment and the three models
C9_Witness ==
    /\ last = Op("SaDeleteAttack", "ok")
    /\ submits = 1
    /\ Cardinality(db.ddos_attacks) = 2
    /\ Cardinality(db.experiment_results) = 2
    /\ Cardinality(db.experiments) = 1
    /\ Cardinality(db.ai_models) = 3

\* C10: in every state every experiment_results row references an existing
\* experiment and an existing attack, and the model reference of every
\* experiment is null or references an existing ai_models row
C10_ReferentialIntegrity ==
    /\ \A r \in db.experiment_results :
          /\ r.experiment_id \in Ids(db, "experiments")
          /\ r.attack_id \in Ids(db, "ddos_attacks")
    /\ \A e \in db.experiments :
          e.model_id = NULL \/ e.model_id \in Ids(db, "ai_models")

\* the model of the demo experiment was deleted: the experiment is still there
\* with a null model reference, and so are its three results
C10_Witness ==
    /\ last = Op("SaDeleteModel", "ok")
    /\ 1 \notin Ids(db, "ai_models")
    /\ \E e \in db.experiments :
          e.name = DemoExperiments[1].name /\ e.model_id = NULL
    /\ Cardinality(db.experiment_results) = 3

\* C11: deleting a model succeeds whether or not experiments reference it;
\* every experiment stays, those that referenced the model with a null model
\* reference and their other fields as before; no attack and no
\* experiment_results row is deleted
C11_ModelDeleteSetsNull ==
    [][\A row \in 0..MaxSeq :
          DeleteStep("ai_models", row)
          => /\ last'.outcome = "ok"
             /\ SelectedKey("ai_models", row) \notin Ids(db', "ai_models")
             /\ db'.experiments =
                  {IF e.model_id = SelectedKey("ai_models", row)
                   THEN [e EXCEPT !.model_id = NULL] ELSE e : e \in db.experiments}
             /\ Cardinality(db'.experiments) = Cardinality(db.experiments)
             /\ db'.ddos_attacks = db.ddos_attacks
             /\ db'.experiment_results = db.experiment_results]_vars

\* model 1 was deleted right after the seed: two models are left, the demo
\* experiment has a null model reference, attacks and results are complete
C11_Witness ==
    /\ last = Op("SaDeleteModel", "ok")
    /\ submits = 1
    /\ Ids(db, "ai_models") = {2, 3}
    /\ \A e \in db.experiments : e.model_id = NULL
    /\ Counts(db) = [t \in Tables |->
                       CASE t = "ai_models" -> 2 [] t = "experiments" -> 1
                         [] OTHER -> 3]

\* the value constraints of the rows of d
ValueConstraints(d) ==
    /\ \A e \in d.experiments :
          0 <= e.detected_attacks /\ e.detected_attacks <= e.total_attacks
    /\ \A r \in d.experiment_results :
          0 <= r.confidence /\ r.confidence <= 100 /\ r.detection_time_ms >= 0
    /\ \A a \in d.ddos_attacks :
          /\ a.packet_count > 0 /\ a.duration_seconds > 0
          /\ a.attack_type \in AttackTypes

\* rows that each break one value constraint, with the table they go to
BadInserts ==
    { [t |-> "experiments",
       row |-> [name |-> W("probe", 5), model_id |-> NULL,
                total_attacks |-> 2, detected_attacks |-> 3]],
      [t |-> "experiments",
       row |-> [name |-> W("probe", 5), model_id |-> NULL,
                total_attacks |-> 2, detected_attacks |-> -1]],
      [t |-> "experiment_results",
       row |-> [DemoResults[1] EXCEPT !.confidence = 101]],
      [t |-> "experiment_results",
       row |-> [DemoResults[1] EXCEPT !.confidence = -1]],
      [t |-> "experiment_results",
       row |-> [DemoResults[1] EXCEPT !.detection_time_ms = -1]],
      [t |-> "ddos_attacks",
       row |-> [DemoAttacks[1] EXCEPT !.packet_count = 0]],
      [t |-> "ddos_attacks",
       row |-> [DemoAttacks[1] EXCEPT !.duration_seconds = 0]],
      [t |-> "ddos_attacks",
       row |-> [DemoAttacks[1] EXCEPT !.attack_type = "dns_flood"]] }

\* C12: in every state every stored row satisfies the value constraints, and
\* an INSERT of a row that breaks one of them is refused and leaves the
\* tables as they are
C12_ValueConstraints ==
    /\ ValueConstraints(db)
    /\ db.schema =>
          \A p \in BadInserts :
             /\ ~InsertStmt(db, p.t, <<p.row>>).ok
             /\ Content(InsertStmt(db, p.t, <<p.row>>).db) = Content(db)

\* an experiment with more detected attacks than attacks was submitted and
\* turned down, next to the rows of the seed
C12_Witness ==
    /\ last = Op("SaAddExperiment", "invalid")
    /\ form.tab = "experiments"
    /\ form.fields.detected_attacks > form.fields.total_attacks
    /\ Cardinality(db.experiment_results) = 3
    /\ Cardinality(db.ddos_attacks) = 3

\* the uniqueness rules of the rows of d
Uniqueness(d) ==
    /\ \A r, q \in d.ai_models :
          r # q => /\ r.model_id # q.model_id
                   /\ ~(r.name = q.name /\ r.version = q.version)
    /\ \A r, q \in d.experiments :
          r # q => r.experiment_id # q.experiment_id /\ r.name # q.name
    /\ \A r, q \in d.experiment_results :
          r # q => /\ r.result_id # q.result_id
                   /\ ~(r.experiment_id = q.experiment_id
                        /\ r.attack_id = q.attack_id)
    /\ \A r, q \in d.ddos_attacks : r # q => r.attack_id # q.attack_id

\* C13: in every state no two models share (name, version), no two
\* experiments share a name, no two results share (experiment, attack), and
\* no two rows of a table share their primary key
C13_Uniqueness == Uniqueness(db)

\* a second experiment with the name of the demo experiment was submitted
\* with another model selected and refused: there is still one experiment
C13_Witness ==
    /\ last = Op("SaAddExperiment", "error")
    /\ form.tab = "experiments"
    /\ form.fields.name = DemoExperiments[1].name
    /\ form.fields.model_id = 3
    /\ Cardinality(db.experiments) = 1

AddAttackStep(f) ==
    /\ last'.op \in {"PgAddAttack", "SaAddAttack"}
    /\ PgAddAttack(f) \/ SaAddAttack(f)

AddExperimentStep(x, i) ==
    /\ last'.op = "SaAddExperiment"
    /\ i <= Len(model_cb)
    /\ SaAddExperiment(x[1], i, x[2])

\* the form of tab t as the handler left it
FormIs(t, f) == form = [tab |-> t, fields |-> f]

\* C14: a submit of an entity form that the engine refuses leaves the four
\* tables with the content they had before the submit, reports an error, and
\* leaves every field of the form with the value it had at the submit
C14_RejectedSubmitKeepsAll ==
    [][/\ \A f \in ModelForms :
            AddModelStep(f) /\ last'.outcome = "error"
            => Content(db') = Content(db) /\ FormIs("ai_models", f)'
       /\ \A f \in AttackForms :
            AddAttackStep(f) /\ last'.outcome = "error"
            => Content(db') = Content(db) /\ FormIs("ddos_attacks", f)'
       /\ \A x \in ExperimentInputs, i \in 0..MaxSeq :
            AddExperimentStep(x, i) /\ last'.outcome = "error"
            => /\ Content(db') = Content(db)
               /\ FormIs("experiments", ExperimentFields(x[1], i, x[2]))'
      ]_vars

\* an experiment was submitted with a model selected that had been deleted:
\* the foreign key refused it, and the form still holds what was typed
C14_Witness ==
    /\ last = Op("SaAddExperiment", "error")
    /\ form.tab = "experiments"
    /\ form.fields.name = W("E", 1)
    /\ form.fields.total_attacks = 3
    /\ form.fields.model_id # NULL
    /\ form.fields.model_id \notin Ids(db, "ai_models")
    /\ db.experiments # {}

\* the rows the adapter of table t holds are the rows of the table
CacheCurrent(t) ==
    IF app = "pg"
    THEN pgModel[t].rows = fetch_data(db, "idle", t).rows
    ELSE saModel[t] = SortByKey(db[t], PkCol(t))

\* C15: after every successful submit the adapter of the tab holds the rows
\* of its table, the new one included, and every field of the form has the
\* value it had when the form was created
C15_SuccessRefreshesAndResets ==
    [][/\ \A f \in ModelForms :
            AddModelStep(f) /\ last'.outcome = "ok"
            => CacheCurrent("ai_models")' /\ FormIs("ai_models", ModelFormDefault)'
       /\ \A f \in AttackForms :
            AddAttackStep(f) /\ last'.outcome = "ok"
            => /\ CacheCurrent("ddos_attacks")'
               /\ FormIs("ddos_attacks",
                         IF app = "pg" THEN PgAttackFormDefault
                         ELSE SaAttackFormDefault)'
       /\ \A x \in ExperimentInputs, i \in 0..MaxSeq :
            AddExperimentStep(x, i) /\ last'.outcome = "ok"
            => /\ CacheCurrent("experiments")'
               /\ FormIs("experiments", ExperimentFormDefault(model_cb))'
      ]_vars

\* the port list has a token that is no integer, or an integer outside 1..65535
BadPorts(pt) ==
    \E i \in 1..Len(pt) :
       pt[i].k = "bad" \/ (pt[i].k = "int" /\ (pt[i].v < 1 \/ pt[i].v > 65535))

\* the integers of the port list, in the order typed
TypedPorts(pt) ==
    LET ints == SelectSeq(pt, LAMBDA x : x.k = "int")
    IN  [i \in 1..Len(ints) |-> ints[i].v]

\* C16: an attack submit whose port list has a token that is no integer or an
\* integer outside 1..65535 reports an input error, issues no INSERT and
\* leaves ddos_attacks as it is; a submit with a list of integers in 1..65535
\* that succeeds stores the integers in the order typed
C16_PortList ==
    [][\A f \in AttackForms :
          AddAttackStep(f)
          => /\ BadPorts(f.ports)
                => /\ last'.outcome = "invalid"
                   /\ db' = db
                   /\ submits' = submits
             /\ ~BadPorts(f.ports) /\ f.ports # <<Blank>> /\ last'.outcome = "ok"
                => \E a \in db'.ddos_attacks \ db.ddos_attacks :
                      a.target_ports = Ports(TypedPorts(f.ports))]_vars

\* the text is empty or consists of blanks
AllBlank(t) == \A i \in 1..Len(t) : t[i].s = " "

\* the submit lacks a required text, or has more detected attacks than attacks
ModelFormInvalid(f) == AllBlank(f.name) \/ AllBlank(f.version)
AttackFormInvalid(f) == AllBlank(f.source_ip) \/ AllBlank(f.target_ip)
ExperimentFormInvalid(x) == AllBlank(x[1]) \/ x[2][2] > x[2][1]

\* C17: a model submit without name or version, an attack submit without
\* source or target address, an experiment submit without name or with more
\* detected attacks than attacks (texts taken after trimming), and a result
\* submit without experiment or attack are turned down before a statement is
\* issued: no INSERT, every table and every form field as before
C17_LocalValidation ==
    [][/\ \A f \in ModelForms :
            AddModelStep(f) /\ ModelFormInvalid(f)
            => /\ last'.outcome \notin {"ok", "error"}
               /\ db' = db /\ submits' = submits /\ FormIs("ai_models", f)'
       /\ \A f \in AttackForms :
            AddAttackStep(f) /\ AttackFormInvalid(f)
            => /\ last'.outcome \notin {"ok", "error"}
               /\ db' = db /\ submits' = submits /\ FormIs("ddos_attacks", f)'
       /\ \A x \in ExperimentInputs, i \in 0..MaxSeq :
            AddExperimentStep(x, i) /\ ExperimentFormInvalid(x)
            => /\ last'.outcome \notin {"ok", "error"}
               /\ db' = db /\ submits' = submits
               /\ FormIs("experiments", ExperimentFields(x[1], i, x[2]))'
       /\ \A f \in ResultForms :
            f.experiment_id = NULL \/ f.attack_id = NULL
            => SaAddResultResult(db', f)
                 = [outcome |-> "invalid", db |-> db', form |-> f]
      ]_vars

\* an experiment with a name of blanks only was submitted after the seed and
\* turned down: no statement was issued, the blanks are still in the form
C17_Witness ==
    /\ last = Op("SaAddExperiment", "invalid")
    /\ submits = 0
    /\ form = [tab |-> "experiments",
               fields |-> [name |-> SP, model_id |-> 1,
                           total_attacks |-> 3, detected_attacks |-> 2]]
    /\ Counts(db) = [t \in Tables |-> IF t = "experiments" THEN 1 ELSE 3]
    /\ db.seq["experiments"] = 2


\* an invocation of create_tables from the setup tab
CreateStep == last'.op = "PgCreateTables" /\ PgCreateTables

FailedCreationStep ==
    \/ last' = Op("PgCreateTables", "error") /\ PgCreateTables
    \/ /\ last' = Op("SaConnect", "schema_error")
       /\ \E failing \in {"drop_all", "create_all"} : SaConnect(TRUE, failing, 0)

\* C19: a schema creation that fails leaves every table and every row that
\* existed before the call as it was
C19_FailedCreationKeepsAll ==
    [][FailedCreationStep => Content(db') = Content(db)]_vars


\* a value of column c of table t is SQL NULL (None in Python)
IsNone(t, c, v) ==
    CASE t = "experiments" /\ c = "model_id" -> v = NULL
      [] c = "end_time" -> v = NOTIME
      [] c = "target_ports" -> v.null
      [] OTHER -> FALSE

\* str(value)
Str(v) == [str |-> v]

\* PostgreSQLTableModel.rowCount, columnCount
rowCount(m) == Len(m.rows)
columnCount(m) == Len(m.columns)

\* PostgreSQLTableModel.data at a valid index: str() of the cell, "None" for
\* None
data(m, t, row, col) ==
    LET v == m.rows[row + 1][col + 1]
    IN  IF IsNone(t, m.columns[col + 1], v) THEN [text |-> "None"] ELSE Str(v)

\* SATableModel.rowCount, columnCount (columns are those of the table object)
SaRowCount(rows) == Len(rows)
SaColumnCount(t) == Len(Columns(t))

\* SATableModel.data at a valid index: "" for None, else str() of the value
SaData(rows, t, row, col) ==
    LET c == Columns(t)[col + 1]
        v == rows[row + 1][c]
    IN  IF IsNone(t, c, v) THEN [text |-> ""] ELSE Str(v)

\* the text a PostgreSQLTableModel / SATableModel cell shows for value v of
\* column c
PgText(t, c, v) == IF IsNone(t, c, v) THEN [text |-> "None"] ELSE Str(v)
SaText(t, c, v) == IF IsNone(t, c, v) THEN [text |-> ""] ELSE Str(v)

\* the cache m of the psycopg2 adapter of table t is the result of one
\* fetch_data on database d that left the connection in state c: the empty
\* pair of a failed fetch, or the columns of t with one tuple per row of t
PgCacheFromFetch(m, d, c, t) ==
    \/ m = NoModel /\ c \in {"closed", "aborted"}
    \/ /\ c = "intrans"
       /\ m.columns = Columns(t)
       /\ rowCount(m) = Cardinality(d[t])
       /\ \A i \in 1..rowCount(m) : Len(m.rows[i]) = columnCount(m)
       /\ \A r \in d[t] :
             \E row \in 0..(rowCount(m) - 1) :
                \A col \in 0..(columnCount(m) - 1) :
                   data(m, t, row, col)
                     = PgText(t, m.columns[col + 1], r[m.columns[col + 1]])

\* the rows of the SQLAlchemy adapter of table t are those of one SELECT on
\* database d, in key order (none when the tab of t was not built)
SaCacheFromFetch(rows, d, tb, t) ==
    \/ rows = <<>> /\ ~HasTab(tb, t)
    \/ /\ d.schema
       /\ SaRowCount(rows) = Cardinality(d[t])
       /\ \A i \in 1..Len(rows) :
             DOMAIN rows[i] = {Columns(t)[k] : k \in 1..SaColumnCount(t)}
       /\ \A i \in 1..(Len(rows) - 1) : rows[i][PkCol(t)] < rows[i + 1][PkCol(t)]
       /\ \A r \in d[t] :
             \E row \in 0..(SaRowCount(rows) - 1) :
                \A col \in 0..(SaColumnCount(t) - 1) :
                   SaData(rows, t, row, col)
                     = SaText(t, Columns(t)[col + 1], r[Columns(t)[col + 1]])

\* the refresh button of the tab of table t
RefreshStep(t) == last'.op = "PgRefresh" /\ PgRefresh(t)

\* C20: the cache of an adapter changes only by a refresh, and then columns
\* and rows are those of one fetch of the table as it is at that moment: as
\* many rows as the table has, as many cells per row as columns, every cell
\* the text of the fetched value; steps that change a table without
\* refreshing its adapter (create_tables, the cascade of a delete in another
\* tab) leave the cache as it was
C20_AdapterCache ==
    [][/\ \A t \in PgTabs :
             pgModel'[t] # pgModel[t] \/ RefreshStep(t)
             => PgCacheFromFetch(pgModel'[t], db', conn', t)
       /\ \A t \in Tables :
             saModel'[t] # saModel[t]
             => SaCacheFromFetch(saModel'[t], db', tabs', t)
       /\ CreateStep => pgModel' = pgModel
       /\ \A t \in Tables, row \in 0..MaxSeq :
             DeleteStep(t, row)
             => /\ SaCacheFromFetch(saModel'[t], db', tabs', t)
                /\ \A u \in Tables \ {t} : saModel'[u] = saModel[u]
      ]_vars

\* a model was deleted in its tab: the adapter of the experiments tab, not
\* refreshed, still shows the model reference that the table no longer has
C20_Witness ==
    /\ last = Op("SaDeleteModel", "ok")
    /\ \E row \in 0..(SaRowCount(saModel["experiments"]) - 1) :
          \E e \in db.experiments :
             /\ e.experiment_id = saModel["experiments"][row + 1].experiment_id
             /\ e.model_id = NULL
             /\ SaData(saModel["experiments"], "experiments", row, 6)
                  = Str(saModel["experiments"][row + 1].model_id)


\* delete_selected of the tab of table t whose DELETE the engine refuses
FailedDeleteStep(t, row) ==
    last' = Op(DeleteOp(t), "error") /\ SaDeleteSelected(t, row, "delete")

\* table u of d after the DELETE of the row with key id from table t, by the
\* ON DELETE rules of the schema
AfterDelete(d, t, id, u) ==
    CASE u = t -> {r \in d[t] : r[PkCol(t)] # id}
      [] u = "experiments" /\ t = "ai_models" ->
           {IF r.model_id = id /\ id # NULL
            THEN [r EXCEPT !.model_id = NULL] ELSE r : r \in d.experiments}
      [] u = "experiment_results" /\ t = "ddos_attacks" ->
           {r \in d.experiment_results : r.attack_id # id}
      [] u = "experiment_results" /\ t = "experiments" ->
           {r \in d.experiment_results : r.experiment_id # id}
      [] OTHER -> d[u]

\* C21: a delete with a row selected removes the row whose key the adapter
\* holds at that row, and its dependents by the cascade rules, in one step,
\* and then the adapter of the tab holds the rows of the table; with no row
\* selected no statement is issued and no table changes; a delete that the
\* engine refuses leaves every table as it was
C21_DeleteSelected ==
    [][\A t \in Tables :
          /\ \A row \in 0..MaxSeq :
                DeleteStep(t, row)
                => /\ \A u \in Tables :
                         db'[u] = AfterDelete(db, t, saModel[t][row + 1][PkCol(t)], u)
                   /\ db'.seq = db.seq /\ db'.schema = db.schema
                   /\ last'.outcome = "ok"
                   /\ saModel'[t] = SortByKey(db'[t], PkCol(t))
          /\ DeleteStep(t, -1)
             => db' = db /\ submits' = submits /\ saModel' = saModel
          /\ \A row \in 0..MaxSeq :
                FailedDeleteStep(t, row)
                => Content(db') = Content(db) /\ saModel' = saModel
      ]_vars

\* a second delete in the models tab: the adapter holds keys 2 and 3 at rows
\* 0 and 1, and the model with key 3 is the one that was removed
C21_Witness ==
    /\ last = Op("SaDeleteModel", "ok")
    /\ Ids(db, "ai_models") = {2}
    /\ Len(saModel["ai_models"]) = 1


\* SetupTab.connect_db with create_connection returning a connection
ConnectStep == last' = Op("PgConnect", "ok") /\ PgConnect(TRUE)

\* SetupTab.disconnect_db
DisconnectStep == last'.op = "PgDisconnect" /\ PgDisconnect

\* disconnect, create-tables and seed buttons enabled exactly when a
\* connection is held, the connect button exactly when none is
ButtonsMatch(c, b) ==
    /\ b.disconnect <=> c # "closed"
    /\ b.create <=> c # "closed"
    /\ b.demo <=> c # "closed"
    /\ b.connect <=> c = "closed"

\* C22: in every state the disconnect, create-tables and seed buttons of the
\* setup tab are enabled exactly when a connection is held and the connect
\* button exactly when none is; a connect that succeeds has told the window
\* that the connection is established, and a disconnect has closed and
\* cleared the connection and told the window that it is closed
C22_SetupControls ==
    [][/\ ButtonsMatch(conn, buttons) /\ ButtonsMatch(conn', buttons')
       /\ ConnectStep => conn' # "closed" /\ window' = "established"
       /\ DisconnectStep
          => /\ conn' = "closed" /\ window' = "closed"
             /\ pgModel' = [t \in PgTabs |-> NoModel]
      ]_vars

\* connected again to a database whose schema an earlier connection created
C22_Witness ==
    /\ last = Op("PgConnect", "ok")
    /\ window = "established"
    /\ buttons.disconnect /\ ~buttons.connect
    /\ db.schema


\* a connection attempt that fails: create_connection returns None
\* (widgets.py), make_engine raises (main.py)
FailedConnectStep ==
    \/ last' = Op("PgConnect", "error") /\ PgConnect(FALSE)
    \/ last' = Op("SaConnect", "connect_error") /\ SaConnect(FALSE, "none", 0)

\* C23: after a connection attempt that fails no connection is held and no
\* tab of an entity, built on an earlier connection, is left in the window
C23_FailedConnectDisconnects ==
    [][FailedConnectStep
       => /\ conn' = "closed" /\ ~engine'
          /\ window' = "closed"
          /\ \A t \in Tables : ~HasTab(tabs', t)
      ]_vars

\* an operation of the setup tab or of a tab that, run on a connection with
\* no failed transaction, succeeds
ValidOnItsOwn ==
    \/ last'.op = "PgCreateTables" /\ PgCreateTables
         /\ create_tables(db, "idle").ok
    \/ last'.op = "PgAddDemoData" /\ PgAddDemoData(0)
         /\ insert_demo_data(db, "idle", 0).ok
    \/ last'.op = "PgRefresh" /\ (\E t \in PgTabs : PgRefresh(t))
         /\ db.schema

\* C24: an operation on the connection that is valid on its own succeeds,
\* whatever operation on that connection failed before it
C24_NextAttemptSucceeds ==
    [][ValidOnItsOwn => last'.outcome = "ok"]_vars

\* C25: when an operation has returned, no transaction is in progress on the
\* connection
C25_NoOpenTransaction == conn \in {"closed", "idle"}


\* delete_selected of the tab of table t whose DELETE is committed and whose
\* refresh fails
FailedRefreshStep(t, row) ==
    /\ last' = Op(DeleteOp(t), "refresh_error")
    /\ SaDeleteSelected(t, row, "refresh")

\* C26: a refresh whose fetch fails completes: the psycopg2 adapter then has
\* no row and no column, the SQLAlchemy adapter has the rows it had, and in
\* both the row count and every cell are those of the cached rows
C26_FailedFetch ==
    [][/\ \A t \in PgTabs :
             RefreshStep(t) /\ last'.outcome = "error"
             => /\ pgModel'[t] = NoModel
                /\ rowCount(pgModel'[t]) = 0 /\ columnCount(pgModel'[t]) = 0
       /\ \A t \in Tables, r \in 0..MaxSeq :
             FailedRefreshStep(t, r)
             => /\ SaRowCount(saModel'[t]) = SaRowCount(saModel[t])
                /\ \A row \in 0..(SaRowCount(saModel[t]) - 1) :
                      \A col \in 0..(SaColumnCount(t) - 1) :
                         SaData(saModel'[t], t, row, col)
                           = SaData(saModel[t], t, row, col)
                /\ \A u \in Tables \ {t} : saModel'[u] = saModel[u]
      ]_vars

\* a model was deleted and the refresh after it failed: the adapter still
\* holds the three rows it had, the table has two
C26_Witness ==
    /\ last = Op("SaDeleteModel", "refresh_error")
    /\ SaRowCount(saModel["ai_models"]) = 3
    /\ Cardinality(db.ai_models) = 2


\* C27: after a connect_db of the SQLAlchemy window in which schema creation
\* and seeding succeed the four tables hold the demo rows and nothing else
\* (3 models, 3 attacks, 1 experiment, 3 results), whatever they held before
C27_ConnectReseeds ==
    [][SaSeedStep(0) /\ last'.outcome = "ok"
       => /\ DemoRowsPresent(db')
          /\ Counts(db') = [t \in Tables |-> IF t = "experiments" THEN 1 ELSE 3]
          /\ db' = insert_demo_data_sa([NoSchema EXCEPT !.schema = TRUE], 0).db
      ]_vars

\* connect_db has created the schema and seeded it: the demo rows have the
\* first serial values and the models tab is in the window
C27_Witness ==
    /\ last = Op("SaConnect", "ok")
    /\ submits = 0
    /\ DemoRowsPresent(db)
    /\ Ids(db, "ai_models") = {1, 2, 3}
    /\ HasTab(tabs, "ai_models")


\* C28: after a connect_db of the SQLAlchemy window in which the engine is
\* made, the schema created and the seed inserted, the window holds an engine
\* and its tabs are the tabs of the four entities, with no placeholder
C28_ConnectBuildsFourTabs ==
    [][SaSeedStep(0) /\ last'.outcome = "ok"
       => /\ engine'
          /\ tabs' = <<"ai_models", "ddos_attacks", "experiments",
                       "experiment_results">>
      ]_vars


\* a submit in the tab of table t of the SQLAlchemy window that succeeds
SaSubmitStep(t) ==
    /\ last'.outcome = "ok"
    /\ CASE t = "ai_models" ->
              last'.op = "SaAddModel" /\ \E f \in ModelForms : SaAddModel(f)
         [] t = "ddos_attacks" ->
              last'.op = "SaAddAttack" /\ \E f \in AttackForms : SaAddAttack(f)
         [] t = "experiments" ->
              /\ last'.op = "SaAddExperiment"
              /\ \E x \in ExperimentInputs, i \in 0..MaxSeq :
                    SaAddExperiment(x[1], i, x[2])
         [] OTHER -> FALSE

\* C29: a submit or a delete that succeeds in one tab refreshes the adapter
\* of that tab alone: the cached rows of the other tabs' adapters and the
\* items of the model selector are as before, also when the statement
\* removed rows from their tables or nulled references in them
C29_OtherTabsUntouched ==
    [][\A t \in Tables :
          SaSubmitStep(t) \/ (\E row \in 0..MaxSeq : DeleteStep(t, row))
          => /\ saModel'[t] = SortByKey(db'[t], PkCol(t))
             /\ \A u \in Tables \ {t} : saModel'[u] = saModel[u]
             /\ model_cb' = model_cb
      ]_vars

\* a model was deleted in the models tab: the model selector of the
\* experiments tab still offers it, and the adapter of the experiments tab
\* still shows the reference that the table has as null
C29_Witness ==
    /\ last = Op("SaDeleteModel", "ok")
    /\ \E i \in 1..Len(model_cb) : model_cb[i].id \notin Ids(db, "ai_models")
    /\ \E i \in 1..Len(saModel["experiments"]) :
          /\ saModel["experiments"][i].model_id # NULL
          /\ saModel["experiments"][i] \notin db.experiments


\* the adapter of the tab of table t holds at this row a key that the table
\* no longer has
StaleKey(t, row) ==
    /\ row < Len(saModel[t])
    /\ saModel[t][row + 1][PkCol(t)] \notin Ids(db, t)

\* C30: a delete from a row of the adapter whose key is no longer in the
\* table, or from a position that has no key, removes nothing from any table,
\* reports no error and leaves the adapter with the rows of the table
C30_DeleteOfAbsentKey ==
    [][\A t \in Tables :
          /\ \A row \in 0..MaxSeq :
                DeleteStep(t, row) /\ StaleKey(t, row)
                => /\ db' = db
                   /\ last'.outcome = "ok"
                   /\ saModel'[t] = SortByKey(db[t], PkCol(t))
          /\ db.schema
             => SaDelete(db, t, pk_value_at(saModel[t], t, Len(saModel[t]))) = db
      ]_vars

\* the refresh after a delete in the models tab failed: the adapter still
\* holds the key of the model that is gone, and the operator can select that
\* row and press delete
C30_Witness ==
    /\ last = Op("SaDeleteModel", "refresh_error")
    /\ StaleKey("ai_models", 0)
    /\ ENABLED SaDeleteSelected("ai_models", 0, "none")

====
